---- MODULE Spec2Model ----
(***************************************************************************)
(* BunnyFileStorage: a FileStorage adapter backed by the Bunny.net storage *)
(* HTTP API.  The model follows the most complete revision of the class    *)
(* (src/unnamed/part_002, lines 35-362).  JavaScript strings that the code *)
(* inspects or builds (keys, paths, cursors) are sequences of one-letter   *)
(* strings; JavaScript values of unknown type (the listing payload) are    *)
(* records tagged with their typeof.                                       *)
(***************************************************************************)
EXTENDS Integers, Sequences, FiniteSets, TLC

VARIABLES config, listing, calls, pager, store, caller

vars == <<config, listing, calls, pager, store, caller>>

(***************************************************************************)
(* Bounds of the model.                                                    *)
(***************************************************************************)
MaxEntries == 3
MaxLimit == 3
MaxCursor == 4
LongLength == 12
MaxKeyLen == 3

CallIds == {1, 2}

(***************************************************************************)
(* Strings.                                                                *)
(***************************************************************************)
Slash == "/"

Digits == <<"0", "1", "2", "3", "4", "5", "6", "7", "8", "9">>

startsWith(s, ch) == Len(s) > 0 /\ s[1] = ch

endsWith(s, ch) == Len(s) > 0 /\ s[Len(s)] = ch

RECURSIVE LastSlash(_, _)
\* index of the last "/" of s at or before position i, 0 when there is none
LastSlash(s, i) ==
    IF i = 0 THEN 0
    ELSE IF s[i] = Slash THEN i
    ELSE LastSlash(s, i - 1)

\* key.split("/").pop() ?? key
lastSegment(key) == SubSeq(key, LastSlash(key, Len(key)) + 1, Len(key))

RECURSIVE toDecimal(_)
\* String(n) for a non-negative integer n
toDecimal(n) ==
    IF n < 10 THEN <<Digits[n + 1]>>
    ELSE toDecimal(n \div 10) \o <<Digits[(n % 10) + 1]>>

DigitValue(ch) == CHOOSE d \in 0..9 : Digits[d + 1] = ch

IsDigit(ch) == \E d \in 0..9 : Digits[d + 1] = ch

RECURSIVE parseDecimal(_)
\* value of a non-empty string of decimal digits
parseDecimal(s) ==
    IF Len(s) = 0 THEN 0
    ELSE 10 * parseDecimal(SubSeq(s, 1, Len(s) - 1)) + DigitValue(s[Len(s)])

(***************************************************************************)
(* Constructor arguments and configuration.                                *)
(***************************************************************************)
storageZoneName == <<"z">>

defaultConfig == [generateChecksums |-> TRUE, preserveRoot |-> TRUE]

\* Object.assign(this.config, options): options is a partial override
Constructor(options) ==
    [generateChecksums |-> IF options.hasChecksums THEN options.generateChecksums
                           ELSE defaultConfig.generateChecksums,
     preserveRoot |-> IF options.hasPreserveRoot THEN options.preserveRoot
                      ELSE defaultConfig.preserveRoot]

ConstructorOptions ==
    [hasChecksums : BOOLEAN, generateChecksums : BOOLEAN,
     hasPreserveRoot : BOOLEAN, preserveRoot : BOOLEAN]

bunnyUrlNoSlashAdded(key) == <<Slash>> \o storageZoneName \o key

bunnyUrlNoSlashCheck(key) == <<Slash>> \o storageZoneName \o <<Slash>> \o key

\* `/${this.storageZoneName}${key.startsWith("/") ? key : `/${key}`}`
bunnyUrl(key) ==
    <<Slash>> \o storageZoneName \o (IF startsWith(key, Slash) THEN key ELSE <<Slash>> \o key)

\* the path without its last segment, if it has one
shorten(segs) == IF Len(segs) = 0 THEN segs ELSE SubSeq(segs, 1, Len(segs) - 1)

\* the segments of the path of new URL(s, base), for s from letter i on, with
\* segs the segments kept so far and cur the letters of the segment being
\* read: the URL parser drops a "." segment, drops the segment before a ".."
\* segment, and leaves an empty last segment where the input ends with one
\* of the two
RECURSIVE removeDotSegments(_, _, _, _)
removeDotSegments(s, i, segs, cur) ==
    IF i > Len(s)
    THEN IF cur = <<".", ".">> THEN shorten(segs) \o <<<<>>>>
         ELSE IF cur = <<".">> THEN segs \o <<<<>>>>
         ELSE segs \o <<cur>>
    ELSE IF s[i] = Slash
    THEN removeDotSegments(s, i + 1,
                           IF cur = <<".", ".">> THEN shorten(segs)
                           ELSE IF cur = <<".">> THEN segs
                           ELSE segs \o <<cur>>,
                           <<>>)
    ELSE removeDotSegments(s, i + 1, segs, cur \o <<s[i]>>)

RECURSIVE joinPath(_)
joinPath(segs) ==
    IF Len(segs) = 0 THEN <<>> ELSE <<Slash>> \o segs[1] \o joinPath(Tail(segs))

\* new URL(path, this.config.urlStorage).pathname, for a path that begins
\* with a slash
pathname(path) == joinPath(removeDotSegments(path, 2, <<>>, <<>>))

(***************************************************************************)
(* Files (name, bytes, MIME type) and the checksum of a file.              *)
(***************************************************************************)
NoFile == [name |-> <<>>, bytes |-> <<>>, type |-> <<>>]

Files ==
    {[name |-> <<"a">>, bytes |-> <<1, 2>>, type |-> <<>>],
     [name |-> <<"b">>, bytes |-> <<171>>, type |-> <<"t">>]}

HexDigits == <<"0", "1", "2", "3", "4", "5", "6", "7", "8", "9", "a", "b", "c", "d", "e", "f">>

RECURSIVE toString16(_)
\* b.toString(16)
toString16(b) ==
    IF b < 16 THEN <<HexDigits[b + 1]>>
    ELSE toString16(b \div 16) \o <<HexDigits[(b % 16) + 1]>>

\* s.padStart(2, "0")
padStart2(s) == IF Len(s) < 2 THEN <<"0">> \o s ELSE s

upperChar(ch) ==
    CASE ch = "a" -> "A" [] ch = "b" -> "B" [] ch = "c" -> "C"
      [] ch = "d" -> "D" [] ch = "e" -> "E" [] ch = "f" -> "F"
      [] OTHER -> ch

\* s.toUpperCase()
toUpperCase(s) == [i \in 1..Len(s) |-> upperChar(s[i])]

RECURSIVE SumBytes(_)
SumBytes(bytes) ==
    IF Len(bytes) = 0 THEN 0 ELSE bytes[1] + SumBytes(Tail(bytes))

\* crypto.subtle.digest: the digest is two bytes wide here, a function of the
\* bytes and their number
digest(bytes) == <<SumBytes(bytes) % 256, (7 * SumBytes(bytes) + Len(bytes)) % 256>>

RECURSIVE joinHex(_)
\* hashArray.map(b => b.toString(16).padStart(2, "0")).join("")
joinHex(hashArray) ==
    IF Len(hashArray) = 0 THEN <<>>
    ELSE padStart2(toString16(hashArray[1])) \o joinHex(Tail(hashArray))

generateChecksumLowerCase(file) == joinHex(digest(file.bytes))

generateChecksum(file) == toUpperCase(joinHex(digest(file.bytes)))

(***************************************************************************)
(* Requests, responses and the results of the public methods.              *)
(***************************************************************************)
\* path is the string the method builds with bunnyUrl, url the path of the
\* URL that is fetched
NoReq ==
    [method |-> "none", path |-> <<>>, url |-> <<>>, hasChecksum |-> FALSE,
     checksum |-> <<>>, body |-> <<>>]

\* fetch(new URL(path, this.config.urlStorage), { method, ... })
Request(method, path) ==
    [NoReq EXCEPT !.method = method, !.path = path, !.url = pathname(path)]

NoRes ==
    [status |-> 0, contentType |-> "none", body |-> "none", blob |-> <<>>, blobType |-> <<>>]

Statuses == {200, 204, 401, 404, 500}

statusText(status) ==
    CASE status = 200 -> "OK"
      [] status = 201 -> "Created"
      [] status = 204 -> "No Content"
      [] status = 401 -> "Unauthorized"
      [] status = 404 -> "Not Found"
      [] status = 500 -> "Internal Server Error"
      [] OTHER -> ""

\* Response.ok
ok(res) == res.status >= 200 /\ res.status <= 299

JSON == "application/json"

NoCursor == [present |-> FALSE, s |-> <<>>]

NoLimit == [present |-> FALSE, num |-> 0, den |-> 1]

NoOpts ==
    [hasPrefix |-> FALSE, prefix |-> <<>>, limit |-> NoLimit, cursor |-> NoCursor,
     includeMetadata |-> FALSE]

Pending ==
    [kind |-> "pending", type |-> "", name |-> "", msg |-> "", status |-> 0,
     statusText |-> "", cause |-> "", field |-> "", got |-> "", bool |-> FALSE,
     file |-> NoFile, files |-> <<>>, cursor |-> NoCursor]

Value(type) == [Pending EXCEPT !.kind = "value", !.type = type]

\* new Error(`${msg} ${res.status} ${res.statusText}`, { cause: content })
StatusError(msg, res) ==
    [Pending EXCEPT !.kind = "error", !.name = "Error", !.msg = msg,
                    !.status = res.status, !.statusText = statusText(res.status),
                    !.cause = IF res.contentType = JSON THEN "json" ELSE "undefined"]

NamedError(name, field, got) ==
    [Pending EXCEPT !.kind = "error", !.name = name, !.field = field, !.got = got]

PreserveRootError == "PreserveRootError"

UnknownContentTypeError == "UnknownContentTypeError"

\* class ValidationError, exported by index.ts as ResponseValidationError
ResponseValidationError == "ResponseValidationError"

InputValidationError == "InputValidationError"

(***************************************************************************)
(* The listing payload: untrusted JSON, every field of every entry may     *)
(* have any type.  A value carries its typeof.                             *)
(***************************************************************************)
JUndefined == [t |-> "undefined", b |-> FALSE, n |-> 0, s |-> <<>>]

JBoolean(b) == [JUndefined EXCEPT !.t = "boolean", !.b = b]

JNumber(n) == [JUndefined EXCEPT !.t = "number", !.n = n]

JString(s) == [JUndefined EXCEPT !.t = "string", !.s = s]

typeof(v) == v.t

Fields == {"IsDirectory", "Path", "ObjectName", "Length", "LastChanged", "ContentType"}

ValidDate == <<"1", "9", "7", "1">>

NaN == -1

\* new Date(s).getTime(): the epoch time of an ISO date (in seconds here, to
\* stay within 32 bits), NaN otherwise
getTime(s) == IF s = ValidDate THEN 31536000 ELSE NaN

isNaN(time) == time = NaN

NoOut ==
    [key |-> <<>>, hasMetadata |-> FALSE, name |-> <<>>, lastModified |-> 0, size |-> 0,
     type |-> <<>>]

\* content.filter(item => ...) throws on the first item whose IsDirectory is
\* not a boolean
RECURSIVE filterThrowsAt(_, _)
filterThrowsAt(content, i) ==
    IF i > Len(content) THEN 0
    ELSE IF typeof(content[i].IsDirectory) # "boolean" THEN i
    ELSE filterThrowsAt(content, i + 1)

keepsDirectories(item) == TRUE

\* the filter's predicate: return !item.IsDirectory
keepsItem(item) == ~item.IsDirectory.b

filterFiles(content) == SelectSeq(content, keepsItem)

mapThrowsNoLengthCheck(f, includeMetadata) ==
    IF typeof(f.Path) # "string" THEN NamedError(ResponseValidationError, "Path", typeof(f.Path))
    ELSE IF typeof(f.ObjectName) # "string"
         THEN NamedError(ResponseValidationError, "ObjectName", typeof(f.ObjectName))
    ELSE IF typeof(f.LastChanged) # "string"
         THEN NamedError(ResponseValidationError, "LastChanged", typeof(f.LastChanged))
    ELSE IF typeof(f.ContentType) # "string"
         THEN NamedError(ResponseValidationError, "ContentType", typeof(f.ContentType))
    ELSE IF includeMetadata /\ isNaN(getTime(f.LastChanged.s))
         THEN NamedError(ResponseValidationError, "LastChanged", "Invalid Date")
    ELSE Pending

\* the error the map callback throws on file entry f, Pending when it throws none
mapThrows(f, includeMetadata) ==
    IF typeof(f.Path) # "string" THEN NamedError(ResponseValidationError, "Path", typeof(f.Path))
    ELSE IF typeof(f.ObjectName) # "string"
         THEN NamedError(ResponseValidationError, "ObjectName", typeof(f.ObjectName))
    ELSE IF typeof(f.Length) # "number"
         THEN NamedError(ResponseValidationError, "Length", typeof(f.Length))
    ELSE IF typeof(f.LastChanged) # "string"
         THEN NamedError(ResponseValidationError, "LastChanged", typeof(f.LastChanged))
    ELSE IF typeof(f.ContentType) # "string"
         THEN NamedError(ResponseValidationError, "ContentType", typeof(f.ContentType))
    ELSE IF includeMetadata /\ isNaN(getTime(f.LastChanged.s))
         THEN NamedError(ResponseValidationError, "LastChanged", "Invalid Date")
    ELSE Pending

\* what the map callback returns for a file entry it accepts
mapEntry(f, includeMetadata) ==
    IF includeMetadata
    THEN [key |-> f.Path.s \o f.ObjectName.s, hasMetadata |-> TRUE, name |-> f.ObjectName.s,
          lastModified |-> getTime(f.LastChanged.s), size |-> f.Length.n,
          type |-> f.ContentType.s]
    ELSE [NoOut EXCEPT !.key = f.Path.s \o f.ObjectName.s]

RECURSIVE mapThrowsAt(_, _, _)
\* index of the first file entry the map callback throws on, 0 when none
mapThrowsAt(files, includeMetadata, i) ==
    IF i > Len(files) THEN 0
    ELSE IF mapThrows(files[i], includeMetadata).kind = "error" THEN i
    ELSE mapThrowsAt(files, includeMetadata, i + 1)

outputFiles(files, includeMetadata) ==
    [i \in 1..Len(files) |-> mapEntry(files[i], includeMetadata)]

(***************************************************************************)
(* Client-side pagination and the validation of limit and cursor.  This    *)
(* revision of list is not among the sources: the revision at hand returns *)
(* every file and no cursor.  It is modelled from the specification (4.4). *)
(***************************************************************************)
isInteger(limit) == limit.num % limit.den = 0

validLimitAllowsZero(limit) ==
    ~limit.present \/ (isInteger(limit) /\ limit.num \div limit.den >= 0)

\* limit, if present, must be a positive integer
validLimit(limit) ==
    ~limit.present \/ (isInteger(limit) /\ limit.num \div limit.den > 0)

validCursorAllowsEmpty(cursor) ==
    ~cursor.present \/ \A i \in 1..Len(cursor.s) : IsDigit(cursor.s[i])

\* cursor, if present, must be the decimal string of an index
validCursor(cursor) ==
    ~cursor.present
    \/ (Len(cursor.s) > 0 /\ \A i \in 1..Len(cursor.s) : IsDigit(cursor.s[i]))

\* the error list raises on its options before it sends a request
validateOptions(opts) ==
    IF ~validLimit(opts.limit) THEN NamedError(InputValidationError, "limit", "")
    ELSE IF ~validCursor(opts.cursor) THEN NamedError(InputValidationError, "cursor", "")
    ELSE Pending

cursorOffsetIgnored(cursor) == 0

cursorOffset(cursor) == IF cursor.present THEN parseDecimal(cursor.s) ELSE 0

Min(a, b) == IF a < b THEN a ELSE b

paginateCursorIsPageLength(outs, opts) ==
    LET offset == cursorOffset(opts.cursor)
        count == IF opts.limit.present THEN opts.limit.num \div opts.limit.den ELSE Len(outs)
        page == SubSeq(outs, offset + 1, Min(offset + count, Len(outs)))
    IN  [Value("page") EXCEPT
            !.files = page,
            !.cursor = IF offset + Len(page) < Len(outs)
                       THEN [present |-> TRUE, s |-> toDecimal(Len(page))]
                       ELSE NoCursor]

paginateCursorWhenPageFull(outs, opts) ==
    LET offset == cursorOffset(opts.cursor)
        count == IF opts.limit.present THEN opts.limit.num \div opts.limit.den ELSE Len(outs)
        page == SubSeq(outs, offset + 1, Min(offset + count, Len(outs)))
    IN  [Value("page") EXCEPT
            !.files = page,
            !.cursor = IF opts.limit.present /\ Len(page) = count
                       THEN [present |-> TRUE, s |-> toDecimal(offset + Len(page))]
                       ELSE NoCursor]

\* the page of outs that starts at the cursor's offset and holds up to limit
\* entries, with the cursor of the next page when entries remain
paginate(outs, opts) ==
    LET offset == cursorOffset(opts.cursor)
        count == IF opts.limit.present THEN opts.limit.num \div opts.limit.den ELSE Len(outs)
        page == SubSeq(outs, offset + 1, Min(offset + count, Len(outs)))
        next == offset + Len(page)
    IN  [Value("page") EXCEPT
            !.files = page,
            !.cursor = IF next < Len(outs)
                       THEN [present |-> TRUE, s |-> toDecimal(next)]
                       ELSE NoCursor]

(***************************************************************************)
(* The methods after their request has resolved.                           *)
(***************************************************************************)
getThrowsOn404(key, res) ==
    IF ~ok(res) THEN StatusError("Failed to get file, status code:", res)
    ELSE [Value("file") EXCEPT
            !.file = [name |-> lastSegment(key), bytes |-> res.blob, type |-> res.blobType]]

\* get, lines 101-110
getResolved(key, res) ==
    IF res.status = 404 THEN Value("null")
    ELSE IF ~ok(res) THEN StatusError("Failed to get file, status code:", res)
    ELSE [Value("file") EXCEPT
            !.file = [name |-> lastSegment(key), bytes |-> res.blob, type |-> res.blobType]]

hasThrowsOn404(res) ==
    IF res.status # 200
    THEN StatusError("Failed to check existence, status code:", res)
    ELSE [Value("boolean") EXCEPT !.bool = ok(res)]

\* has, lines 135-140
hasResolved(res) ==
    IF res.status # 200 /\ res.status # 404
    THEN StatusError("Failed to check existence, status code:", res)
    ELSE [Value("boolean") EXCEPT !.bool = ok(res)]

removeIgnoresMissing(res) ==
    IF ~ok(res) /\ res.status # 404 THEN StatusError("Deletion failed with status code:", res)
    ELSE Value("undefined")

\* remove, lines 275-278
removeResolved(res) ==
    IF ~ok(res) THEN StatusError("Deletion failed with status code:", res)
    ELSE Value("undefined")

\* uploadFile, lines 304-309
uploadFileResolved(file, res) ==
    IF ~ok(res) THEN StatusError("Upload failed with status code:", res)
    ELSE [Value("file") EXCEPT !.file = file]

\* typeof content of a JSON body
typeofBody(body) == IF body = "undefined" THEN "undefined" ELSE "object"

listResolvedAnyContentType(opts, res, content) ==
    IF res.body # "array"
    THEN NamedError(ResponseValidationError, "", typeofBody(res.body))
    ELSE IF filterThrowsAt(content, 1) # 0
    THEN NamedError(ResponseValidationError, "IsDirectory",
                    typeof(content[filterThrowsAt(content, 1)].IsDirectory))
    ELSE LET files == filterFiles(content)
             bad == mapThrowsAt(files, opts.includeMetadata, 1)
         IN  IF bad # 0 THEN mapThrows(files[bad], opts.includeMetadata)
             ELSE paginate(outputFiles(files, opts.includeMetadata), opts)

\* list, lines 171-216, with the page cut out of outputFiles
listResolved(opts, res, content) ==
    IF res.contentType # JSON
    THEN NamedError(UnknownContentTypeError, "Content-Type", res.contentType)
    ELSE IF res.body # "array"
    THEN NamedError(ResponseValidationError, "", typeofBody(res.body))
    ELSE IF filterThrowsAt(content, 1) # 0
    THEN NamedError(ResponseValidationError, "IsDirectory",
                    typeof(content[filterThrowsAt(content, 1)].IsDirectory))
    ELSE LET files == filterFiles(content)
             bad == mapThrowsAt(files, opts.includeMetadata, 1)
         IN  IF bad # 0 THEN mapThrows(files[bad], opts.includeMetadata)
             ELSE paginate(outputFiles(files, opts.includeMetadata), opts)

(***************************************************************************)
(* Invocations.  A call slot holds one invocation of a public method: its  *)
(* arguments, where its async body stands (pc), the requests it has sent,  *)
(* the settlement of the async body (inner) and what the method has handed *)
(* to its caller (outcome).                                                *)
(***************************************************************************)
Idle ==
    [op |-> "none", key |-> <<>>, file |-> NoFile, opts |-> NoOpts, pc |-> "idle",
     nreq |-> 0, req |-> NoReq, res |-> NoRes, outcome |-> Pending, inner |-> Pending]

Keys == {<<>>, <<Slash>>, <<"a">>, <<Slash, "d", Slash, "a">>}

RootKeys == {<<>>, <<Slash>>}

\* await fetch(url, {...}): the request leaves, the body waits for the response
fetch(call, request) ==
    [call EXCEPT !.req = request, !.nreq = @ + 1, !.pc = "fetching"]

\* an async body that throws or returns: the promise settles
settle(call, result) ==
    [call EXCEPT !.pc = "done", !.inner = result, !.outcome = result]

\* get(key) for a key of keys, up to its await fetch(...)
getWith(c, keys) ==
    /\ calls[c].pc = "idle"
    /\ \E key \in keys :
          calls' = [calls EXCEPT ![c] =
                      fetch([Idle EXCEPT !.op = "get", !.key = key],
                            Request("GET", bunnyUrl(key)))]

get(c) == getWith(c, Keys) /\ UNCHANGED <<config, listing, pager, store, caller>>

hasWith(c, keys) ==
    /\ calls[c].pc = "idle"
    /\ \E key \in keys :
          calls' = [calls EXCEPT ![c] =
                      fetch([Idle EXCEPT !.op = "has", !.key = key],
                            Request("DESCRIBE", bunnyUrl(key)))]

has(c) == hasWith(c, Keys) /\ UNCHANGED <<config, listing, pager, store, caller>>

rootGuardSlashOnly(cfg, key) == cfg.preserveRoot /\ key = <<Slash>>

\* this.config.preserveRoot && (key === "" || key === "/")
rootGuard(cfg, key) == cfg.preserveRoot /\ (key = <<>> \/ key = <<Slash>>)

removeWith(c, keys) ==
    /\ calls[c].pc = "idle"
    /\ \E key \in keys :
          LET call == [Idle EXCEPT !.op = "remove", !.key = key]
          IN  calls' = [calls EXCEPT ![c] =
                          IF rootGuard(config, key)
                          THEN settle(call, NamedError(PreserveRootError, "", ""))
                          ELSE fetch(call, Request("DELETE", bunnyUrl(key)))]

removeDisablesGuard(c) ==
    /\ removeWith(c, Keys)
    /\ config' = [config EXCEPT !.preserveRoot = FALSE]
    /\ UNCHANGED <<listing, pager, store, caller>>

remove(c) == removeWith(c, Keys) /\ UNCHANGED <<config, listing, pager, store, caller>>

uploadRequestNoBody(cfg, key, file) ==
    [Request("PUT", bunnyUrl(key)) EXCEPT
        !.hasChecksum = cfg.generateChecksums,
        !.checksum = IF cfg.generateChecksums THEN generateChecksum(file) ELSE <<>>]

\* the PUT request of uploadFile
uploadRequest(cfg, key, file) ==
    [Request("PUT", bunnyUrl(key)) EXCEPT
        !.hasChecksum = cfg.generateChecksums,
        !.checksum = IF cfg.generateChecksums THEN generateChecksum(file) ELSE <<>>,
        !.body = file.bytes]

\* uploadFile up to its first await: the checksum, when enabled, else the fetch
uploadFile(cfg, call) ==
    IF cfg.generateChecksums THEN [call EXCEPT !.pc = "hashing"]
    ELSE fetch(call, uploadRequest(cfg, call.key, call.file))

\* return this.uploadFile(key, file)
putWith(c, keys) ==
    /\ calls[c].pc = "idle"
    /\ \E key \in keys, file \in Files :
          calls' = [calls EXCEPT ![c] =
                      uploadFile(config, [Idle EXCEPT !.op = "put", !.key = key, !.file = file])]

put(c) == putWith(c, Keys) /\ UNCHANGED <<config, listing, pager, store, caller>>

\* return void this.uploadFile(key, file): the promise is dropped and the
\* caller is handed undefined at once
setReturn(call) == [call EXCEPT !.outcome = Value("undefined")]

setWith(c, keys) ==
    /\ calls[c].pc = "idle"
    /\ \E key \in keys, file \in Files :
          calls' = [calls EXCEPT ![c] =
                      setReturn(uploadFile(config,
                          [Idle EXCEPT !.op = "set", !.key = key, !.file = file]))]

set(c) == setWith(c, Keys) /\ UNCHANGED <<config, listing, pager, store, caller>>

\* headers["Checksum"] = await this.generateChecksum(file), then the fetch
checksumResolved(c) ==
    /\ calls[c].pc = "hashing"
    /\ calls' = [calls EXCEPT ![c] = fetch(@, uploadRequest(config, @.key, @.file))]
    /\ UNCHANGED <<config, listing, pager, store, caller>>

\* prefix.endsWith("/") ? prefix : `${prefix}/`, prefix defaulting to "/"
listPath(opts) ==
    LET prefix == IF opts.hasPrefix THEN opts.prefix ELSE <<Slash>>
    IN  IF endsWith(prefix, Slash) THEN prefix ELSE prefix \o <<Slash>>

listWith(c, options) ==
    /\ calls[c].pc = "idle"
    /\ \E opts \in options :
          LET call == [Idle EXCEPT !.op = "list", !.opts = opts]
          IN  calls' = [calls EXCEPT ![c] =
                          IF validateOptions(opts).kind = "error"
                          THEN settle(call, validateOptions(opts))
                          ELSE fetch(call, Request("GET", bunnyUrl(listPath(opts))))]
    /\ UNCHANGED <<config, listing, pager, store, caller>>

\* the body of the method after await fetch(...)
resolved(call, res, content) ==
    CASE call.op = "get" -> getResolved(call.key, res)
      [] call.op = "has" -> hasResolved(res)
      [] call.op = "remove" -> removeResolved(res)
      [] call.op = "list" -> listResolved(call.opts, res, content)
      [] OTHER -> uploadFileResolved(call.file, res)

\* the request of call c is answered with res: the body runs to its end
answered(c, responses) ==
    /\ calls[c].pc = "fetching"
    /\ \E res \in responses :
          LET result == resolved(calls[c], res, listing)
          IN  calls' = [calls EXCEPT ![c] =
                          [@ EXCEPT !.pc = "done", !.res = res, !.inner = result,
                                    !.outcome = IF @.kind = "pending" THEN result ELSE @]]

\* a backend that may answer anything answers the request of call c
fetchResolvedWith(c, responses) ==
    answered(c, responses) /\ UNCHANGED <<config, listing, pager, store, caller>>

\* the caller has its result and the async body has ended: the slot is free
return(c) ==
    /\ calls[c].pc = "done"
    /\ calls' = [calls EXCEPT ![c] = Idle]
    /\ UNCHANGED <<config, listing, pager, store, caller>>

(***************************************************************************)
(* The backend: what it may answer, and the listings it may hold.          *)
(***************************************************************************)
Response(status, contentType, body) ==
    [NoRes EXCEPT !.status = status, !.contentType = contentType, !.body = body]

OctetStream == "application/octet-stream"

\* the answers to get, has, put, set and remove: any status, an error with
\* or without a JSON body, a download with the bytes of some file
Responses(call) ==
    {Response(status, contentType, "none") :
        status \in {st \in Statuses : ~ok(Response(st, "none", "none"))},
        contentType \in {JSON, "text/html"}}
    \cup IF call.op = "get"
         THEN {[Response(200, OctetStream, "blob") EXCEPT !.blob = f.bytes, !.blobType = f.type] :
                  f \in {g \in Files : g.name = <<"a">>}}
              \cup {Response(204, OctetStream, "none")}
         ELSE {Response(status, OctetStream, "none") :
                  status \in {st \in Statuses : ok(Response(st, "none", "none"))}}

OkListing == Response(200, JSON, "array")

\* the answers to list: the listing, JSON that is no array, no JSON at all
ListResponses ==
    {OkListing, Response(200, JSON, "null"), Response(401, JSON, "object"),
     Response(500, "text/html", "none")}

BackendResponses(call) == IF call.op = "list" THEN ListResponses ELSE Responses(call)

fileEntry(name) ==
    [IsDirectory |-> JBoolean(FALSE), Path |-> JString(<<Slash, "z", Slash>>),
     ObjectName |-> JString(name), LastChanged |-> JString(ValidDate),
     Length |-> JNumber(2), ContentType |-> JString(<<"t">>)]

directoryEntry(name) ==
    [IsDirectory |-> JBoolean(TRUE), Path |-> JString(<<Slash, "z", Slash>>),
     ObjectName |-> JString(name), LastChanged |-> JString(ValidDate),
     Length |-> JNumber(0), ContentType |-> JString(<<>>)]

\* a value of another type than the schema gives the field
wrongType(field) ==
    CASE field = "IsDirectory" -> JUndefined
      [] field = "Length" -> JString(<<"2">>)
      [] field = "LastChanged" -> JNumber(0)
      [] OTHER -> JUndefined

corrupt(entry, field) == [entry EXCEPT ![field] = wrongType(field)]

WellFormedEntries ==
    {fileEntry(<<"a">>), fileEntry(<<"b">>), fileEntry(<<"c">>), directoryEntry(<<"d">>)}

MalformedEntries ==
    {corrupt(fileEntry(<<"a">>), field) : field \in Fields}
    \cup {corrupt(directoryEntry(<<"d">>), "Length"),
          [fileEntry(<<"a">>) EXCEPT !.LastChanged = JString(<<"x">>)]}

SeqsUpTo(S, n) == UNION {[1..k -> S] : k \in 0..n}

\* a listing long enough for cursors of two digits
LongListing == [i \in 1..LongLength |-> fileEntry(toDecimal(i))]

WellFormedListings == SeqsUpTo(WellFormedEntries, MaxEntries) \cup {LongListing}

AnyListings ==
    SeqsUpTo({fileEntry(<<"a">>), fileEntry(<<"b">>), directoryEntry(<<"d">>)}
             \cup MalformedEntries, MaxEntries)

(***************************************************************************)
(* The options list is called with.                                        *)
(***************************************************************************)
Limit(num, den) == [present |-> TRUE, num |-> num, den |-> den]

Cursor(s) == [present |-> TRUE, s |-> s]

Limits == {NoLimit} \cup {Limit(n, 1) : n \in -1..MaxLimit} \cup {Limit(3, 2)}

Cursors ==
    {NoCursor}
    \cup {Cursor(toDecimal(n)) : n \in (0..MaxCursor) \cup ((LongLength - 2)..LongLength)}
    \cup {Cursor(<<"-", "1">>), Cursor(<<"x">>), Cursor(<<>>)}

Options(limits, cursors, prefixes) ==
    {[hasPrefix |-> prefix # <<>>, prefix |-> prefix, limit |-> limit, cursor |-> cursor,
      includeMetadata |-> includeMetadata] :
        limit \in limits, cursor \in cursors, prefix \in prefixes,
        includeMetadata \in BOOLEAN}

AllOptions == Options(Limits, Cursors, {<<>>})

FewOptions ==
    Options({NoLimit, Limit(1, 1)}, {NoCursor}, {<<>>, <<Slash, "d">>})

ListOptions ==
    Options({NoLimit, Limit(1, 1)}, {NoCursor, Cursor(<<"1">>)}, {<<>>, <<Slash, "d">>})

(***************************************************************************)
(* A backend that stores what it receives and reflects writes and deletes, *)
(* as the storage zone of the integration tests does, and what the caller  *)
(* has been told about each path so far.                                   *)
(***************************************************************************)
NoObject == [present |-> FALSE, bytes |-> <<>>, by |-> "none", given |-> <<>>]

\* two keys of one file, without and with the leading slash
StoreKeys == {<<"a">>, <<Slash, "a">>}

StorePaths == {bunnyUrl(key) : key \in StoreKeys}

EmptyStore == [path \in StorePaths |-> NoObject]

\* the answer of the backend to request req when it holds objects
answer(objects, req) ==
    CASE req.method = "PUT" -> Response(201, JSON, "object")
      [] req.method = "GET" /\ objects[req.path].present ->
            [Response(200, OctetStream, "blob") EXCEPT !.blob = objects[req.path].bytes]
      [] req.method \in {"DESCRIBE", "DELETE"} /\ objects[req.path].present ->
            Response(200, JSON, "object")
      [] OTHER -> Response(404, JSON, "object")

\* what the backend holds once it has served the request of call: a PUT
\* stores the body it received, a DELETE removes the object.  by and given
\* remember the method that was called and the bytes of the file it was given.
stored(objects, call) ==
    CASE call.req.method = "PUT" ->
            [objects EXCEPT ![call.req.path] =
                [present |-> TRUE, bytes |-> call.req.body, by |-> call.op,
                 given |-> call.file.bytes]]
      [] call.req.method = "DELETE" -> [objects EXCEPT ![call.req.path] = NoObject]
      [] OTHER -> objects

NoCaller == [path \in StorePaths |-> [last |-> "none", seen |-> "none"]]

\* what the caller knows of the path of a call after a step that took the call
\* from before to after: the last of put, set and remove that has returned
\* to the caller without error (last), and the answer of has since (seen)
observe(known, before, after) ==
    LET path == bunnyUrl(after.key)
        returned == before.outcome.kind = "pending" /\ after.outcome.kind # "pending"
    IN  CASE returned /\ after.op \in {"put", "set"} ->
                [known EXCEPT ![path] =
                    [last |-> IF after.outcome.kind = "value" THEN after.op ELSE "none",
                     seen |-> "none"]]
          [] returned /\ after.op = "remove" ->
                [known EXCEPT ![path] =
                    [last |-> IF after.outcome.kind = "value" THEN "removed" ELSE "none",
                     seen |-> "none"]]
          [] returned /\ after.op = "has" /\ after.outcome.kind = "value" ->
                [known EXCEPT ![path].seen = IF after.outcome.bool THEN "true" ELSE "false"]
          [] OTHER -> known

\* the caller awaits every call it makes: it makes no call while it waits
\* for the result of another
callerFree == \A d \in CallIds : calls[d].outcome.kind # "pending" \/ calls[d].pc = "idle"

\* any of get, has, put, set and remove, for a key of keys
invokeWith(c, keys) ==
    \/ getWith(c, keys)
    \/ hasWith(c, keys)
    \/ putWith(c, keys)
    \/ setWith(c, keys)
    \/ removeWith(c, keys)

\* the caller calls a method when it waits for no other
invoke(c) ==
    /\ callerFree
    /\ invokeWith(c, StoreKeys)
    /\ caller' = observe(caller, calls[c], calls'[c])
    /\ UNCHANGED <<config, listing, pager, store>>

\* the storing backend serves the request of call c and answers it
backendResolved(c) ==
    /\ answered(c, {answer(store, calls[c].req)})
    /\ store' = stored(store, calls[c])
    /\ caller' = observe(caller, calls[c], calls'[c])
    /\ UNCHANGED <<config, listing, pager>>

(***************************************************************************)
(* A caller that pages through the listing as the README does: it calls    *)
(* list with a limit, then again with the cursor of the page it got, until *)
(* a page comes without cursor.                                            *)
(***************************************************************************)
NoPager ==
    [state |-> "off", limit |-> NoLimit, cursor |-> NoCursor, keys |-> <<>>, pages |-> 0]

keysOf(files) == [i \in 1..Len(files) |-> files[i].key]

pagerStart ==
    /\ pager.state = "off"
    /\ \E n \in 1..MaxLimit : pager' = [NoPager EXCEPT !.state = "paging", !.limit = Limit(n, 1)]
    /\ UNCHANGED <<config, listing, calls, store, caller>>

pagerList ==
    /\ pager.state = "paging"
    /\ listWith(1, {[NoOpts EXCEPT !.limit = pager.limit, !.cursor = pager.cursor]})

pagerCollect ==
    /\ pager.state = "paging"
    /\ calls[1].pc = "done"
    /\ LET page == calls[1].outcome
       IN  pager' = [pager EXCEPT
                        !.state = IF page.kind = "value" /\ page.cursor.present
                                  THEN "paging"
                                  ELSE IF page.kind = "value" THEN "done" ELSE "failed",
                        !.cursor = page.cursor,
                        !.keys = @ \o keysOf(page.files),
                        !.pages = @ + 1]
    /\ calls' = [calls EXCEPT ![1] = Idle]
    /\ UNCHANGED <<config, listing, store, caller>>

(***************************************************************************)
(* Specifications.                                                         *)
(***************************************************************************)
\* Spec: two callers invoke any methods of one adapter concurrently against
\* a backend that may answer anything.
Init ==
    /\ config \in {Constructor(options) : options \in ConstructorOptions}
    /\ listing = <<fileEntry(<<"a">>), directoryEntry(<<"d">>), fileEntry(<<"b">>)>>
    /\ calls = [c \in CallIds |-> Idle]
    /\ pager = NoPager
    /\ store = EmptyStore
    /\ caller = NoCaller

Next ==
    \E c \in CallIds :
        \/ get(c)
        \/ has(c)
        \/ listWith(c, FewOptions)
        \/ put(c)
        \/ set(c)
        \/ remove(c)
        \/ checksumResolved(c)
        \/ fetchResolvedWith(c, BackendResponses(calls[c]))
        \/ return(c)

Spec == Init /\ [][Next]_vars

\* SpecList: list against any payload, well-formed or not.
InitList ==
    /\ config = Constructor([hasChecksums |-> FALSE, generateChecksums |-> FALSE,
                             hasPreserveRoot |-> FALSE, preserveRoot |-> FALSE])
    /\ listing \in AnyListings
    /\ calls = [c \in CallIds |-> Idle]
    /\ pager = NoPager
    /\ store = EmptyStore
    /\ caller = NoCaller

NextList ==
    \/ listWith(1, ListOptions)
    \/ fetchResolvedWith(1, ListResponses)
    \/ return(1)

SpecList == InitList /\ [][NextList]_vars

\* SpecPage: list with any limit and cursor against a well-formed listing.
InitPage ==
    /\ config = Constructor([hasChecksums |-> FALSE, generateChecksums |-> FALSE,
                             hasPreserveRoot |-> FALSE, preserveRoot |-> FALSE])
    /\ listing \in WellFormedListings
    /\ calls = [c \in CallIds |-> Idle]
    /\ pager = NoPager
    /\ store = EmptyStore
    /\ caller = NoCaller

NextPage ==
    \/ listWith(1, AllOptions)
    \/ fetchResolvedWith(1, {OkListing})
    \/ return(1)

SpecPage == InitPage /\ [][NextPage]_vars

\* SpecPaging: the paging caller against a fixed well-formed listing.
NextPaging ==
    \/ pagerStart
    \/ pagerList
    \/ (pager.state = "paging" /\ fetchResolvedWith(1, {OkListing}))
    \/ pagerCollect

SpecPaging == InitPage /\ [][NextPaging]_vars

\* the paging caller goes on calling while it holds a cursor, and the backend
\* answers every request
SpecPagingFair ==
    /\ SpecPaging
    /\ WF_vars(pagerList)
    /\ WF_vars(pager.state = "paging" /\ fetchResolvedWith(1, {OkListing}))
    /\ WF_vars(pagerCollect)

\* SpecStore: a caller that awaits each call, against the storing backend.
\* The upload that set leaves behind goes on while the caller calls again.
InitStore ==
    /\ config \in {Constructor(options) :
                     options \in {o \in ConstructorOptions : ~o.hasPreserveRoot}}
    /\ listing = <<>>
    /\ calls = [c \in CallIds |-> Idle]
    /\ pager = NoPager
    /\ store = EmptyStore
    /\ caller = NoCaller

NextStore ==
    \E c \in CallIds :
        \/ invoke(c)
        \/ checksumResolved(c)
        \/ backendResolved(c)
        \/ return(c)

SpecStore == InitStore /\ [][NextStore]_vars

\* SpecKeys: one caller, every key of up to MaxKeyLen letters.
AllKeys == SeqsUpTo({Slash, ".", "a"}, MaxKeyLen)

NextKeys ==
    \/ (invokeWith(1, AllKeys) /\ UNCHANGED <<config, listing, pager, store, caller>>)
    \/ checksumResolved(1)
    \/ fetchResolvedWith(1, Responses(calls[1]))
    \/ return(1)

SpecKeys == Init /\ [][NextKeys]_vars

(***************************************************************************)
(* Properties.                                                             *)
(***************************************************************************)
IsError(result, name) == result.kind = "error" /\ result.name = name

\* an error that carries the status code and status text of response res
IsStatusError(result, res) ==
    /\ IsError(result, "Error")
    /\ result.status = res.status
    /\ result.statusText = statusText(res.status)

\* the requests sent by the invocations in progress
sent == calls[1].nreq + calls[2].nreq

\* C1: with preserveRoot enabled, a call remove(k) with k = "" or k = "/"
\* fails with PreserveRootError and sends no request: the step that makes the
\* call leaves the number of requests sent, and every request, as they were.
C1_RootRemoveSendsNoRequest ==
    [][\A c \in CallIds :
          (/\ calls[c].pc = "idle"
           /\ calls'[c].op = "remove"
           /\ calls'[c].key \in RootKeys
           /\ config.preserveRoot)
          => /\ IsError(calls'[c].outcome, PreserveRootError)
             /\ calls'[c].pc = "done"
             /\ sent' = sent
             /\ \A d \in CallIds : calls'[d].req = calls[d].req]_vars

C1_Witness ==
    \E c \in CallIds :
        /\ calls[c].op = "remove"
        /\ calls[c].key = <<>>
        /\ config.preserveRoot
        /\ IsError(calls[c].outcome, PreserveRootError)
        /\ sent > 0

\* C7: get returns null on 404, fails with the status code and text on every
\* other status that is no success, and returns a file only on a success.
C7_GetByStatus ==
    \A c \in CallIds :
        (calls[c].op = "get" /\ calls[c].pc = "done")
        => LET res == calls[c].res
               out == calls[c].outcome
           IN  /\ res.status = 404 => out = Value("null")
               /\ (res.status # 404 /\ ~ok(res)) => IsStatusError(out, res)
               /\ (out.kind = "value" /\ out.type = "file") => ok(res)
               /\ ok(res) => (out.kind = "value" /\ out.type = "file")

C7_Witness ==
    \E c \in CallIds :
        /\ calls[c].op = "get"
        /\ calls[c].pc = "done"
        /\ calls[c].res.status = 404
        /\ calls[c].outcome = Value("null")

\* C8 as stated: has returns true for every success status, false for 404,
\* and fails for every other status.
C8_HasTrueOnEverySuccess ==
    \A c \in CallIds :
        (calls[c].op = "has" /\ calls[c].pc = "done")
        => LET res == calls[c].res
               out == calls[c].outcome
           IN  /\ ok(res) => out = [Value("boolean") EXCEPT !.bool = TRUE]
               /\ res.status = 404 => out = [Value("boolean") EXCEPT !.bool = FALSE]
               /\ (~ok(res) /\ res.status # 404) => IsStatusError(out, res)

\* C8 amended: has returns true for status 200, false (without throwing) for
\* 404, and fails with the status code and text for every other status, the
\* success statuses other than 200 among them.
C8_HasTrueOn200Only ==
    \A c \in CallIds :
        (calls[c].op = "has" /\ calls[c].pc = "done")
        => LET res == calls[c].res
               out == calls[c].outcome
           IN  /\ res.status = 200 => out = [Value("boolean") EXCEPT !.bool = TRUE]
               /\ res.status = 404 => out = [Value("boolean") EXCEPT !.bool = FALSE]
               /\ res.status \notin {200, 404} => IsStatusError(out, res)

C8_Witness ==
    \E c \in CallIds :
        /\ calls[c].op = "has"
        /\ calls[c].pc = "done"
        /\ calls[c].res.status = 204
        /\ IsStatusError(calls[c].outcome, calls[c].res)

\* C9: for put and for set, an upload request answered with a status that is
\* no success makes the call fail towards its caller with the status code and
\* text.
C9_UploadFailureReachesCaller ==
    \A c \in CallIds :
        (calls[c].op \in {"put", "set"} /\ calls[c].pc = "done" /\ ~ok(calls[c].res))
        => IsStatusError(calls[c].outcome, calls[c].res)

\* C10: an operation sends at most one request, and has not completed towards
\* its caller while its request is still to be sent or still outstanding.
C10_NoReturnBeforeRequestResolved ==
    \A c \in CallIds :
        /\ calls[c].nreq <= 1
        /\ calls[c].outcome.kind # "pending" => calls[c].pc = "done"

\* the list calls that have returned a page, and the file entries of the
\* listing in the order of the response
ListReturnedPage(c) ==
    calls[c].op = "list" /\ calls[c].pc = "done" /\ calls[c].outcome.kind = "value"

FileIndices == {i \in 1..Len(listing) : listing[i].IsDirectory = JBoolean(FALSE)}

NumFiles == Cardinality(FileIndices)

Max(a, b) == IF a > b THEN a ELSE b

ExpectedType(field) ==
    CASE field = "IsDirectory" -> "boolean"
      [] field = "Length" -> "number"
      [] OTHER -> "string"

WrongType(i, field) == typeof(listing[i][field]) # ExpectedType(field)

\* the list calls that the backend has answered with the listing as JSON
ListAnsweredWithListing(c) ==
    calls[c].op = "list" /\ calls[c].pc = "done" /\ calls[c].res = OkListing

\* the call failed with a ResponseValidationError that names a field that has
\* the wrong type in some entry, together with that type, and returned no file
FailedNamingWrongField(c) ==
    LET out == calls[c].outcome
    IN  /\ IsError(out, ResponseValidationError)
        /\ out.files = <<>>
        /\ \E i \in 1..Len(listing) :
              /\ out.field \in Fields
              /\ WrongType(i, out.field)
              /\ out.got = typeof(listing[i][out.field])

FailedNamingInvalidField(c) ==
    LET out == calls[c].outcome
    IN  /\ IsError(out, ResponseValidationError)
        /\ out.files = <<>>
        /\ out.field \in Fields
        /\ \E i \in 1..Len(listing) :
              \/ WrongType(i, out.field) /\ out.got = typeof(listing[i][out.field])
              \/ /\ out.field = "LastChanged"
                 /\ calls[c].opts.includeMetadata
                 /\ listing[i].IsDirectory = JBoolean(FALSE)
                 /\ ~WrongType(i, "LastChanged")
                 /\ isNaN(getTime(listing[i].LastChanged.s))

C6_NoDirectorySurfaced ==
    \A c \in CallIds :
        ListReturnedPage(c)
        => LET files == calls[c].outcome.files
               meta == calls[c].opts.includeMetadata
           IN  /\ \A j \in 1..Len(files) :
                     \E i \in 1..Len(listing) :
                        /\ listing[i].IsDirectory = JBoolean(FALSE)
                        /\ files[j] = mapEntry(listing[i], meta)
               /\ \A i \in 1..Len(listing) :
                     listing[i].IsDirectory = JBoolean(TRUE)
                     => \A j \in 1..Len(files) :
                           files[j].key # listing[i].Path.s \o listing[i].ObjectName.s

C6_Witness ==
    \E c \in CallIds :
        /\ ListReturnedPage(c)
        /\ Len(listing) = 3
        /\ listing[1].IsDirectory = JBoolean(TRUE)
        /\ listing[3].IsDirectory = JBoolean(TRUE)
        /\ listing[2] = fileEntry(<<"b">>)
        /\ keysOf(calls[c].outcome.files) = <<<<Slash, "z", Slash, "b">>>>


\* a limit that is a positive integer: num / den is one of 1, 2, 3, ...
PositiveInteger(limit) == \E n \in 1..limit.num : limit.num = n * limit.den

\* a cursor as list produces it: the decimal digits of an offset
PageToken(cursor) ==
    /\ cursor.s # <<>>
    /\ \A i \in 1..Len(cursor.s) :
          cursor.s[i] \in {"0", "1", "2", "3", "4", "5", "6", "7", "8", "9"}

BadLimit(opts) == opts.limit.present /\ ~PositiveInteger(opts.limit)

BadCursor(opts) == opts.cursor.present /\ ~PageToken(opts.cursor)

RemoveAnswered(c) == calls[c].op = "remove" /\ calls[c].pc = "done" /\ calls[c].nreq = 1

\* C13: a call of remove whose DELETE request is answered with a status
\* outside 200..299, 404 included, fails with the error "Deletion failed with
\* status code: <status> <status text>"; remove returns normally only on a
\* status inside 200..299.
C13_RemoveFailsOnEveryNonSuccess ==
    \A c \in CallIds :
        RemoveAnswered(c) =>
            IF calls[c].res.status < 200 \/ calls[c].res.status > 299
            THEN /\ calls[c].outcome.kind = "error"
                 /\ calls[c].outcome.msg = "Deletion failed with status code:"
                 /\ calls[c].outcome.status = calls[c].res.status
                 /\ calls[c].res.status = 404 => calls[c].outcome.statusText = "Not Found"
            ELSE calls[c].outcome.kind = "value"

C13_Witness ==
    \E c \in CallIds :
        /\ RemoveAnswered(c)
        /\ calls[c].key \notin RootKeys
        /\ calls[c].res.status = 404
        /\ calls[c].outcome.kind = "error"
        /\ calls[c].outcome.msg = "Deletion failed with status code:"
        /\ calls[c].outcome.status = 404
        /\ calls[c].outcome.statusText = "Not Found"


\* the path begins with /<storageZoneName>
UnderZone(path) ==
    /\ Len(path) > Len(storageZoneName)
    /\ SubSeq(path, 1, Len(storageZoneName) + 1) = <<Slash>> \o storageZoneName

\* what follows /<storageZoneName> in the path
KeyPart(path) == SubSeq(path, Len(storageZoneName) + 2, Len(path))

\* s begins with one slash and no second one
OneLeadingSlash(s) == Len(s) > 0 /\ s[1] = Slash /\ (Len(s) > 1 => s[2] # Slash)

\* s is the key as it is when the key begins with a slash, and the key with
\* one slash put before it when it does not
SlashAddedWhenMissing(s, key) ==
    /\ s \in {key, <<Slash>> \o key}
    /\ Len(s) > 0 /\ s[1] = Slash
    /\ (Len(key) > 0 /\ key[1] = Slash) => s = key

RemoveOfFile(c) == calls[c].op = "remove" /\ calls[c].key \notin RootKeys

UpperHexDigits ==
    <<"0", "1", "2", "3", "4", "5", "6", "7", "8", "9", "A", "B", "C", "D", "E", "F">>

\* the value of an upper-case hexadecimal digit, -1 for any other letter
HexValue(ch) ==
    IF \E v \in 1..16 : UpperHexDigits[v] = ch
    THEN (CHOOSE v \in 1..16 : UpperHexDigits[v] = ch) - 1
    ELSE -1

\* text is bytes written as two upper-case hexadecimal digits per byte
IsUpperHexOf(text, bytes) ==
    /\ Len(text) = 2 * Len(bytes)
    /\ \A i \in 1..Len(bytes) :
          /\ HexValue(text[2 * i - 1]) >= 0
          /\ HexValue(text[2 * i]) >= 0
          /\ 16 * HexValue(text[2 * i - 1]) + HexValue(text[2 * i]) = bytes[i]

Uploading(c) == calls[c].op \in {"put", "set"}

\* C15: the PUT request of put and set carries the Checksum header exactly
\* when generateChecksums is enabled; the header is the digest of the bytes
\* sent as the body, in upper-case hexadecimal; the body is the bytes of the
\* file; and while the checksum is computed no request has been sent.
C15_ChecksumHeaderIffEnabled ==
    \A c \in CallIds :
        Uploading(c) =>
            /\ calls[c].pc = "hashing" => (config.generateChecksums /\ calls[c].nreq = 0)
            /\ calls[c].nreq > 0 =>
                  /\ calls[c].nreq = 1
                  /\ calls[c].req.method = "PUT"
                  /\ calls[c].req.hasChecksum <=> config.generateChecksums
                  /\ calls[c].req.body = calls[c].file.bytes
                  /\ calls[c].req.hasChecksum =>
                        IsUpperHexOf(calls[c].req.checksum, digest(calls[c].req.body))

C15_Witness ==
    \E c \in CallIds :
        /\ Uploading(c)
        /\ config.generateChecksums
        /\ calls[c].nreq = 1
        /\ calls[c].req.hasChecksum
        /\ calls[c].req.body = <<171>>
        /\ calls[c].req.checksum = <<"A", "B", "A", "E">>


\* the GET request of a call of list has been answered
ListAnswered(c) == calls[c].op = "list" /\ calls[c].pc = "done" /\ calls[c].nreq = 1

\* C16: a call of list whose request is answered without the JSON content
\* type fails with UnknownContentTypeError carrying the content type that
\* came; one answered with JSON that is no array (null, an object) fails with
\* ResponseValidationError carrying the typeof of the body, "object"; so a
\* page is returned only for a JSON array.
C16_PageOnlyForJsonArray ==
    \A c \in CallIds :
        ListAnswered(c) =>
            /\ calls[c].res.contentType # JSON =>
                  /\ IsError(calls[c].outcome, UnknownContentTypeError)
                  /\ calls[c].outcome.got = calls[c].res.contentType
            /\ (calls[c].res.contentType = JSON /\ calls[c].res.body \in {"null", "object"}) =>
                  /\ IsError(calls[c].outcome, ResponseValidationError)
                  /\ calls[c].outcome.field = ""
                  /\ calls[c].outcome.got = "object"
            /\ calls[c].outcome.kind = "value" =>
                  (calls[c].res.contentType = JSON /\ calls[c].res.body = "array")

C16_Witness ==
    \E c \in CallIds :
        /\ ListAnswered(c)
        /\ calls[c].res.contentType = "text/html"
        /\ IsError(calls[c].outcome, UnknownContentTypeError)
        /\ calls[c].outcome.got = "text/html"


\* this step is the one in which the request of call c is answered
Answering(c, op) ==
    calls[c].op = op /\ calls[c].pc = "fetching" /\ calls'[c].pc = "done"

\* C17: against the storing backend, when the request of get(k) is answered
\* and the last write or delete that reached the object of k is the upload of
\* a put(k, B), get returns a file with the bytes B of the file put was given;
\* and when the request of put is answered, put returns the file it was given.
C17_GetReturnsWhatPutWasGiven ==
    [][\A c \in CallIds :
          /\ (/\ Answering(c, "get")
              /\ store[calls[c].req.path].present
              /\ store[calls[c].req.path].by = "put") =>
                 /\ calls'[c].outcome.kind = "value"
                 /\ calls'[c].outcome.type = "file"
                 /\ calls'[c].outcome.file.bytes = store[calls[c].req.path].given
          /\ Answering(c, "put") =>
                 /\ calls'[c].outcome.kind = "value"
                 /\ calls'[c].outcome.file = calls[c].file
                 /\ store'[calls[c].req.path].present
                 /\ store'[calls[c].req.path].given = calls[c].file.bytes]_vars

C17_Witness ==
    \E c \in CallIds :
        /\ calls[c].op = "get"
        /\ calls[c].key = <<"a">>
        /\ calls[c].pc = "done"
        /\ store[calls[c].req.path].by = "put"
        /\ store[calls[c].req.path].given = <<171>>
        /\ calls[c].outcome.kind = "value"
        /\ calls[c].outcome.file.bytes = <<171>>


\* C18 as stated: against the storing backend, has(k) answers true when the
\* last of put, set and remove that returned for the object of k is a set,
\* false when it is a remove, and the same as the has(k) before it when none
\* of them has returned in between.
C18_HasReflectsSetAndRemove ==
    [][\A c \in CallIds :
          Answering(c, "has") =>
              LET known == caller[calls[c].req.path]
                  result == calls'[c].outcome
              IN  /\ result.kind = "value"
                  /\ known.last = "set" => result.bool
                  /\ known.last = "removed" => ~result.bool
                  /\ known.seen = "true" => result.bool
                  /\ known.seen = "false" => ~result.bool]_vars


\* call c is a call of get, has, put, set or remove that has sent its request
SentByKey(c) ==
    calls[c].op \in {"get", "has", "put", "set", "remove"} /\ calls[c].nreq > 0

SameCall(c, d) ==
    /\ calls[c].op = calls[d].op
    /\ calls[c].key = calls[d].key
    /\ calls[c].file = calls[d].file
    /\ calls[c].opts = calls[d].opts
    /\ calls[c].pc = calls[d].pc
    /\ calls[c].res = calls[d].res

\* C20: no step of any method changes the configuration; a step of one call
\* changes nothing of a call that runs beside it; and two calls that run
\* side by side with the same arguments and the same answer of the backend
\* have sent the same request and have the same result.
C20_CallsDoNotInterfere ==
    [][/\ config' = config
       /\ \A c, d \in CallIds :
             (c # d /\ calls'[c] # calls[c]) => calls'[d] = calls[d]
       /\ \A c, d \in CallIds :
             SameCall(c, d) =>
                /\ calls[c].req = calls[d].req
                /\ calls[c].inner = calls[d].inner
                /\ calls[c].outcome = calls[d].outcome]_vars

C20_Witness ==
    /\ calls[1].op = "remove" /\ calls[2].op = "remove"
    /\ calls[1].key = <<"a">> /\ calls[2].key = <<"a">>
    /\ calls[1].pc = "done" /\ calls[2].pc = "done"
    /\ calls[1].res.status = 200 /\ calls[2].res.status = 404
    /\ calls[1].outcome.kind = "value" /\ calls[2].outcome.kind = "error"


\* entry i of the listing is a file entry whose LastChanged is a string that
\* new Date(...) does not turn into a timestamp
FileWithUnparsableDate(i) ==
    /\ typeof(listing[i].IsDirectory) = "boolean"
    /\ ~listing[i].IsDirectory.b
    /\ typeof(listing[i].LastChanged) = "string"
    /\ isNaN(getTime(listing[i].LastChanged.s))

\* C21 as stated: a call of list answered with a listing that holds a file
\* entry whose LastChanged is a string that is no date fails with
\* ResponseValidationError, with includeMetadata true and with it false.
C21_UnparsableDateFailsList ==
    \A c \in CallIds :
        (/\ ListAnsweredWithListing(c)
         /\ \E i \in 1..Len(listing) : FileWithUnparsableDate(i)) =>
            IsError(calls[c].outcome, ResponseValidationError)

\* the part of C21 that the code keeps: the same, for includeMetadata true
C21_UnparsableDateFailsListWithMetadata ==
    \A c \in CallIds :
        (/\ ListAnsweredWithListing(c)
         /\ calls[c].opts.includeMetadata
         /\ \E i \in 1..Len(listing) : FileWithUnparsableDate(i)) =>
            IsError(calls[c].outcome, ResponseValidationError)


\* the path of the storage zone's top-level directory, /<storageZoneName>/
ZoneRoot == <<Slash>> \o storageZoneName \o <<Slash>>

\* C22 as stated: with preserveRoot enabled no call has sent a DELETE
\* request to the path of the zone root, and the path bunnyUrl builds for a
\* key is that of the zone root for the keys "" and "/" only.
C22_NoDeleteOfZoneRoot ==
    \A c \in CallIds :
        /\ (config.preserveRoot /\ calls[c].req.method = "DELETE") =>
              calls[c].req.url # ZoneRoot
        /\ (calls[c].nreq > 0 /\ calls[c].op # "list" /\ calls[c].req.path = ZoneRoot) =>
              calls[c].key \in RootKeys

====
